---- MODULE Spec2Model ----
(***************************************************************************)
(* The notification queue of AnimatedNotification                          *)
(* (src/src/components/lightswind/animated-notification.tsx).              *)
(*                                                                         *)
(* State: the notes array, the dismissTimeouts map, every pending host     *)
(* timer (window.setTimeout / window.setInterval), the isGenerating guard, *)
(* the generations in flight and the onNotificationDismiss calls made.     *)
(*                                                                         *)
(* Time is discrete.  A pending timer carries the ticks that remain until  *)
(* it is due; Tick lets one tick pass and is enabled only when no timer is *)
(* due, so a due timer runs before time moves on.  Every handler is one    *)
(* atomic action: the browser runs callbacks one at a time.                *)
(*                                                                         *)
(* Spec is the queue with its user and caller.  GenSpec is the generator   *)
(* alone, with the outcomes of fetchRandomUser.  RenderSpec is the         *)
(* provider contexts of the component library (Popover, Drawer, ...).      *)
(***************************************************************************)
EXTENDS Integers, Sequences, FiniteSets, TLC

\* Bounds of the model.
MaxGen    == 2        \* generations that resolve over one run (uuid values used)
MaxEvents == 2        \* events of the user and the caller over one run

\* Props.  Durations are in ticks; the defaults are 3 notes, 3500 ms, 800 ms
\* and 3000 ms.  firstDelay is the literal 900 ms of the first generation.
maxNotifications   == 2
autoInterval       == 3
animationDuration  == 1
autoDismissTicks   == 2
firstDelay         == 1

\* The caller's batches use one id more than the capacity, so that a batch can
\* be longer than maxNotifications.
NumBatchIds == maxNotifications + 1

NoTimer == -1         \* intervalRef.current = null, no handle

BatchIds == 1..NumBatchIds
GenIds   == (NumBatchIds + 1)..(NumBatchIds + MaxGen)
Ids      == BatchIds \cup GenIds

VARIABLES
    notes,            \* useState notes: sequence of [id, fadingOut]
    timers,           \* pending setTimeout callbacks, in creation order
    dismissTimeouts,  \* ids that have an entry in dismissTimeouts.current
    intervalRef,      \* ticks until the generator interval fires, or NoTimer
    first,            \* ticks until the first delayed generation, or NoTimer
    isGenerating,     \* isGenerating.current
    inflight,         \* generations awaiting generateNotification
    nextId,           \* the next uuid
    autoGenerate,     \* the autoGenerate prop
    autoDismissTimeout, \* the autoDismissTimeout prop: 0 (off) or autoDismissTicks
    mounted,          \* FALSE after unmount
    calls,            \* onNotificationDismiss calls per id
    events,           \* events of the user and the caller so far
    fixedUser,        \* the fixedUser prop, or None
    gpc,              \* generateNotification: "idle", "fixed" or "fetching"
    fetches,          \* calls of fetch made so far
    outcome,          \* how the last fetch settled
    users,            \* the user of each generated record
    surfaced,         \* an error has left addGeneratedNote
    ancestors,        \* the providers above the element being rendered, outermost first
    rendered,         \* the sub-component rendered last, or "none"
    error,            \* what its render threw: "none", "context" or "children"
    accType,          \* Accordion: the type prop, "single" or "multiple"
    accCollapsible,   \* Accordion: the collapsible prop
    accValue,         \* Accordion: the value prop (undefined when uncontrolled)
    accValues,        \* Accordion: useState values, the open items in order
    accPending,       \* Accordion: the effect on [value, type] has yet to run
    accChanged,       \* Accordion: the last argument of onValueChange, or None
    tipOpenProp,      \* Tooltip: the open prop, or None when uncontrolled
    tipUncontrolledOpen, \* Tooltip: useState uncontrolledOpen
    tipDisabled,      \* Tooltip: the disabled prop
    tipShow,          \* Tooltip: ticks until the show timer fires, or NoTimer
    tipHide,          \* Tooltip: ticks until the hide timer fires, or NoTimer
    tipShowRef,       \* Tooltip: showTimeoutRef.current holds a timer id
    tipHideRef,       \* Tooltip: hideTimeoutRef.current holds a timer id
    tipLast,          \* Tooltip: the last mouse event handled: "none", "enter", "leave"
    tipSince,         \* Tooltip: ticks since that event (capped)
    tipCleared,       \* Tooltip: the pending timers that event cancelled
    tipChanged,       \* Tooltip: the last argument of onOpenChange, or None
    tipMounted,       \* Tooltip: FALSE after unmount
    menuHover,        \* DropdownMenu: the hoverMode prop
    menuOpenProp,     \* DropdownMenu: the open prop, or None when uncontrolled
    menuUncontrolledOpen, \* DropdownMenu: useState uncontrolledOpen
    menuRequested,    \* DropdownMenu: the onOpenChange call the parent has yet to follow
    menuTimer,        \* DropdownMenu: ticks until the timer of timeoutRef fires, or NoTimer
    menuTimerKind,    \* DropdownMenu: what that timer does: "open", "close" or "none"
    menuPointer,      \* DropdownMenu: where the pointer is: "outside", "trigger", "content"
    menuOpenedBy,     \* DropdownMenu: what asked for the menu to open: "none", "hover", "click"
    menuMounted,      \* DropdownMenu: FALSE after unmount
    openKind,         \* which of Popover, Drawer, Collapsible, SidebarProvider is rendered
    openProp,         \* its open / expanded prop, or None when uncontrolled
    openState,        \* its useState: uncontrolledOpen / isOpen / expanded
    openDisabled,     \* the disabled prop (Collapsible only)
    openHasCallback,  \* onOpenChange / onExpandedChange is supplied
    openRequests,     \* requests to open or close made so far
    openCalls,        \* calls of the change callback so far
    openLast          \* the argument of its last call, or None

queueVars == <<notes, timers, dismissTimeouts, intervalRef, first, isGenerating,
               inflight, nextId, autoGenerate, autoDismissTimeout, mounted, calls,
               events>>

genVars == <<fixedUser, gpc, fetches, outcome, users, surfaced>>

ctxVars == <<ancestors, rendered, error>>

accVars == <<accType, accCollapsible, accValue, accValues, accPending, accChanged>>

tipVars == <<tipOpenProp, tipUncontrolledOpen, tipDisabled, tipShow, tipHide,
             tipShowRef, tipHideRef, tipLast, tipSince, tipCleared, tipChanged,
             tipMounted>>

menuVars == <<menuHover, menuOpenProp, menuUncontrolledOpen, menuRequested,
              menuTimer, menuTimerKind, menuPointer, menuOpenedBy, menuMounted>>

openVars == <<openKind, openProp, openState, openDisabled, openHasCallback,
              openRequests, openCalls, openLast>>

uiVars == <<ctxVars, accVars, tipVars, menuVars, openVars>>

vars == <<queueVars, genVars, uiVars>>

----------------------------------------------------------------------------
\* Records and pure helpers

\* A NotificationItem, reduced to the fields the queue logic reads.
NotificationItem(id, fading) == [id |-> id, fadingOut |-> fading]

\* A pending window.setTimeout.  kind is the callback: "auto" (dismissNotification
\* after autoDismissTimeout), "dismiss" (removal scheduled by dismissNotification),
\* "evict" (removal scheduled by addGeneratedNote), "manual" (removal scheduled by
\* handleManualDismiss).  tracked: dismissTimeouts maps id to this timer's handle.
TimerRec(kind, id, rem, tracked) ==
    [kind |-> kind, id |-> id, rem |-> rem, tracked |-> tracked]

\* The delay a timer of this kind was scheduled with.
Delay(kind) == IF kind = "auto" THEN autoDismissTimeout ELSE animationDuration

\* prev.find((n) => n.id === id): the index of the first match, 0 if none
FindNote(s, id) ==
    IF \E i \in DOMAIN s : s[i].id = id
    THEN CHOOSE i \in DOMAIN s : s[i].id = id /\ \A j \in 1..(i - 1) : s[j].id # id
    ELSE 0

\* prev.map((n) => (n.id === id ? { ...n, fadingOut: true } : n))
MarkFading(s, id) ==
    [i \in DOMAIN s |-> IF s[i].id = id THEN [s[i] EXCEPT !.fadingOut = TRUE] ELSE s[i]]

\* current.filter((n) => n.id !== id)
RemoveNote(s, id) == SelectSeq(s, LAMBDA n : n.id # id)

\* prev.filter((n) => !n.fadingOut)
NonFading(s) == SelectSeq(s, LAMBDA n : ~n.fadingOut)

\* The sequence s without its i-th element.
DropAt(s, i) == [j \in 1..(Len(s) - 1) |-> IF j < i THEN s[j] ELSE s[j + 1]]

\* clearNoteTimeout(id), the timers: clearTimeout of the handle the map holds
\* (a handle whose timer has already run clears nothing).
ClearedTimers(ts, id) == SelectSeq(ts, LAMBDA t : ~(t.tracked /\ t.id = id))

\* clearNoteTimeout(id), the map: dismissTimeouts.current.delete(id)
ClearedMap(m, id) == m \ {id}

\* onNotificationDismiss(note), counted per id
Called(c, id) == [c EXCEPT ![id] = @ + 1]

----------------------------------------------------------------------------
\* The user of a generated record

\* An optional value: absent (undefined), or present.
None == <<>>
Some(x) == <<x>>
Maybe(S) == {None} \cup {Some(x) : x \in S}

\* String(v) of a template literal: an absent value reads "undefined"
ToStr(v) == IF v = None THEN "undefined" ELSE v[1]

\* The names of the catch block, line 163
FallbackNames == <<"John Doe", "Jane Smith", "Alex Johnson", "Sarah Wilson", "Mike Brown">>

\* A NotificationUser, reduced to its name and avatarUrl
NotificationUser(name, avatarUrl) == [name |-> name, avatarUrl |-> avatarUrl]

\* The fixedUser a caller may configure
FixedUsers == {NotificationUser("Fixed User", None)}

\* The parsed bodies a server may send: an object whose results is absent, an
\* empty list or a list of one user; the user's name and picture are absent or
\* present, and so are the name's first and last.
ApiNames == [first : Maybe({"Ann"}), last : Maybe({"Lee"})]
ApiUsers == [name : Maybe(ApiNames), picture : Maybe({"ann.png"})]
Bodies   == [results : Maybe({<<>>} \cup {<<u>> : u \in ApiUsers})]

\* How a fetch settles: fetch rejects; or it resolves and res.json() rejects
\* (json absent) or resolves with a parsed body.
Rejects   == [fetch |-> "rejects", json |-> None]
Outcomes  == {Rejects} \cup {[fetch |-> "resolves", json |-> j] : j \in Maybe(Bodies)}
NoOutcome == [fetch |-> "none", json |-> None]

\* The result of a block of code: it throws, or it returns a value.
Throws == None
Returns(x) == Some(x)

\* Lines 155-160: data.results[0] throws on absent results; user.picture
\* throws on an absent user; user.name.first throws on an absent name; an
\* absent first or last is read as undefined and put into the template literal.
BuildUser(data) ==
    IF data.results = None THEN Throws
    ELSE LET results == data.results[1] IN
         IF results = <<>> THEN Throws
         ELSE LET user == results[1] IN
              IF user.name = None THEN Throws
              ELSE Returns(NotificationUser(
                       ToStr(user.name[1].first) \o " " \o ToStr(user.name[1].last),
                       user.picture))

\* The try block of fetchRandomUser, lines 152-160
TryFetch(o) ==
    IF o.fetch = "rejects" THEN Throws
    ELSE IF o.json = None THEN Throws
    ELSE BuildUser(o.json[1])

\* fetchRandomUser without its catch block
FetchRandomUserNoCatch(o, n) == TryFetch(o)

\* fetchRandomUser, lines 150-169; n is the index Math.random picks
FetchRandomUser(o, n) ==
    LET r == TryFetch(o) IN
    IF r = Throws THEN Returns(NotificationUser(FallbackNames[n], None)) ELSE r

\* The user of generateNotification, line 177:
\* fixedUser || await fetchRandomUser(userApiEndpoint)
GenerateNotification(fixed, o, n) ==
    IF fixed # None THEN Returns(fixed[1]) ELSE FetchRandomUser(o, n)

----------------------------------------------------------------------------
\* The refs and props after the first render and its effects: the interval and
\* the first delayed call are armed (lines 315-325).
RefsInit ==
    /\ intervalRef = autoInterval
    /\ first = firstDelay
    /\ isGenerating = FALSE
    /\ inflight = 0
    /\ nextId = NumBatchIds + 1
    /\ autoGenerate = TRUE
    /\ autoDismissTimeout \in {0, autoDismissTicks}
    /\ mounted = TRUE
    /\ calls = [i \in Ids |-> 0]
    /\ events = 0

\* The component mounted without a notifications prop: the queue is empty.
QueueInit ==
    /\ notes = <<>>
    /\ timers = <<>>
    /\ dismissTimeouts = {}
    /\ RefsInit

\* No generation has started.
GenIdle ==
    /\ gpc = "idle"
    /\ fetches = 0
    /\ outcome = NoOutcome
    /\ users = [id \in GenIds |-> None]
    /\ surfaced = FALSE

\* The Accordion: its props and pure helpers

AccordionItems == {"a", "b", "c"}

\* A value or defaultValue prop: undefined, a string or an array of strings
Undefined == [tag |-> "undefined", str |-> "", arr |-> <<>>]
StringProp(s) == [tag |-> "string", str |-> s, arr |-> <<>>]
ArrayProp(a) == [tag |-> "array", str |-> "", arr |-> a]

ValueArrays == {<<>>} \cup {<<x>> : x \in AccordionItems}
                   \cup {<<x, y>> : x \in AccordionItems, y \in AccordionItems}

ValueProps == {Undefined} \cup {StringProp(s) : s \in AccordionItems \cup {""}}
                  \cup {ArrayProp(a) : a \in ValueArrays}

\* normalizeValue: an array is kept, a non-empty string becomes a one-element
\* array, anything falsy the empty array
normalizeValue(val) ==
    IF val.tag = "array" THEN val.arr
    ELSE IF val.tag = "string" /\ val.str # "" THEN <<val.str>>
    ELSE <<>>

\* type === "single" && vs.length > 1 ? [vs[0]] : vs, without the cut
KeepAll(type, vs) == vs

\* type === "single" && vs.length > 1 ? [vs[0]] : vs
SingleCut(type, vs) ==
    IF type = "single" /\ Len(vs) > 1 THEN <<vs[1]>> ELSE vs

\* values.includes(itemValue)
Includes(vs, item) == \E i \in DOMAIN vs : vs[i] = item

\* values.filter(v => v !== itemValue)
Without(vs, item) ==
    LET F[i \in 0..Len(vs)] ==
            IF i = 0 THEN <<>>
            ELSE IF vs[i] = item THEN F[i - 1] ELSE Append(F[i - 1], vs[i])
    IN F[Len(vs)]

\* The newValues of handleValueChange(itemValue)
NewValues(type, collapsible, vs, item) ==
    IF type = "single"
    THEN IF Includes(vs, item)
         THEN IF collapsible THEN <<>> ELSE <<item>>
         ELSE <<item>>
    ELSE IF Includes(vs, item) THEN Without(vs, item) ELSE Append(vs, item)

\* No Accordion has been rendered.
AccIdle ==
    /\ accType = "single"
    /\ accCollapsible = TRUE
    /\ accValue = Undefined
    /\ accValues = <<>>
    /\ accPending = FALSE
    /\ accChanged = None

\* The provider contexts are empty.
CtxInit ==
    /\ ancestors = <<>>
    /\ rendered = "none"
    /\ error = "none"

\* The Tooltip: its delays in ticks (delayDuration = 300 and hideDelay = 100
\* by default: the show delay is the longer one)
delayDuration == 2
hideDelay == 1

\* What the Tooltip's refs and state hold at the mount
TipRefsInit ==
    /\ tipShow = NoTimer
    /\ tipHide = NoTimer
    /\ tipShowRef = FALSE
    /\ tipHideRef = FALSE
    /\ tipLast = "none"
    /\ tipSince = 0
    /\ tipCleared = {}
    /\ tipChanged = None
    /\ tipMounted = TRUE

\* No Tooltip has been rendered.
TipIdle ==
    /\ tipOpenProp = None
    /\ tipUncontrolledOpen = FALSE
    /\ tipDisabled = FALSE
    /\ TipRefsInit

\* The DropdownMenu in hover mode: its delays in ticks (150 ms before the
\* menu opens, 200 ms before it closes)
hoverOpenDelay == 1
hoverCloseDelay == 2

\* What the DropdownMenu's refs hold at the mount
MenuRefsInit ==
    /\ menuRequested = None
    /\ menuTimer = NoTimer
    /\ menuTimerKind = "none"
    /\ menuPointer = "outside"
    /\ menuOpenedBy = "none"
    /\ menuMounted = TRUE

\* No DropdownMenu has been rendered.
MenuIdle ==
    /\ menuHover = FALSE
    /\ menuOpenProp = None
    /\ menuUncontrolledOpen = FALSE
    /\ MenuRefsInit

\* Nothing has been asked of the component yet.
OpenRefsInit ==
    /\ openRequests = 0
    /\ openCalls = 0
    /\ openLast = None

\* None of Popover, Drawer, Collapsible, SidebarProvider has been rendered.
OpenIdle ==
    /\ openKind = "Popover"
    /\ openProp = None
    /\ openState = FALSE
    /\ openDisabled = FALSE
    /\ openHasCallback = FALSE
    /\ OpenRefsInit

\* Nothing of the component library has been rendered.
UiInit == CtxInit /\ AccIdle /\ TipIdle /\ MenuIdle /\ OpenIdle

Init == QueueInit /\ GenIdle /\ fixedUser = None /\ UiInit
----------------------------------------------------------------------------
\* Host timers

\* Timers scheduled with the same delay run in the order they were created;
\* across different delays the order within one tick is not determined.
CanFire(i) ==
    /\ timers[i].rem = 0
    /\ \A j \in 1..(i - 1) :
          ~(timers[j].rem = 0 /\ Delay(timers[j].kind) = Delay(timers[i].kind))

\* A state updater passed to setNotes runs once while the component is mounted.
\* After unmount React keeps no state for the component: the queue is never
\* changed again, and whether the updater function (and the side effects
\* written inside it) still runs depends on the runtime's eager evaluation.
UpdaterRuns == IF mounted THEN {TRUE} ELSE BOOLEAN

\* The queue after setNotes produced s: React drops the result once unmounted.
Committed(s) == IF mounted THEN s ELSE notes

\* dismissNotification that marks the record but schedules no removal
DismissNotificationNoRemoval(id, ts) ==
    LET k == FindNote(notes, id) IN
    \E ran \in UpdaterRuns :
        IF ran /\ k # 0 /\ ~notes[k].fadingOut
        THEN /\ notes' = Committed(MarkFading(notes, id))
             /\ timers' = ClearedTimers(ts, id)
             /\ dismissTimeouts' = ClearedMap(dismissTimeouts, id)
        ELSE /\ timers' = ts
             /\ UNCHANGED <<notes, dismissTimeouts>>

\* dismissNotification(id, true), lines 222-250; ts are the pending timers once
\* the auto-dismiss timer that calls it has run.
DismissNotification(id, ts) ==
    LET k == FindNote(notes, id) IN
    \E ran \in UpdaterRuns :
        IF ran /\ k # 0 /\ ~notes[k].fadingOut
        THEN /\ notes' = Committed(MarkFading(notes, id))
             /\ timers' = Append(ClearedTimers(ts, id),
                                 TimerRec("dismiss", id, animationDuration, FALSE))
             /\ dismissTimeouts' = ClearedMap(dismissTimeouts, id)
        ELSE /\ timers' = ts
             /\ UNCHANGED <<notes, dismissTimeouts>>

\* An auto-dismiss timer runs: () => dismissNotification(n.id, true)
AutoDismissFires(i) ==
    /\ i \in DOMAIN timers
    /\ timers[i].kind = "auto"
    /\ CanFire(i)
    /\ DismissNotification(timers[i].id, DropAt(timers, i))
    /\ UNCHANGED <<intervalRef, first, isGenerating, inflight, nextId,
                   autoGenerate, autoDismissTimeout, mounted, calls, events>>
    /\ UNCHANGED <<genVars, uiVars>>

\* The removal callback of dismissNotification, lines 234-244
DismissRemovalFires(i) ==
    /\ i \in DOMAIN timers
    /\ timers[i].kind = "dismiss"
    /\ CanFire(i)
    /\ timers' = DropAt(timers, i)
    /\ \E ran \in UpdaterRuns :
          IF ran
          THEN /\ notes' = Committed(RemoveNote(notes, timers[i].id))
               /\ calls' = Called(calls, timers[i].id)
          ELSE UNCHANGED <<notes, calls>>
    /\ UNCHANGED <<dismissTimeouts, intervalRef, first, isGenerating, inflight,
                   nextId, autoGenerate, autoDismissTimeout, mounted, events>>
    /\ UNCHANGED <<genVars, uiVars>>

\* The removal callback of handleManualDismiss, lines 377-383
ManualRemovalFires(i) ==
    /\ i \in DOMAIN timers
    /\ timers[i].kind = "manual"
    /\ CanFire(i)
    /\ timers' = DropAt(timers, i)
    /\ \E ran \in UpdaterRuns :
          IF ran
          THEN /\ notes' = Committed(RemoveNote(notes, timers[i].id))
               /\ calls' = Called(calls, timers[i].id)
          ELSE UNCHANGED <<notes, calls>>
    /\ UNCHANGED <<dismissTimeouts, intervalRef, first, isGenerating, inflight,
                   nextId, autoGenerate, autoDismissTimeout, mounted, events>>
    /\ UNCHANGED <<genVars, uiVars>>

\* The removal callback of the eviction in addGeneratedNote, lines 270-274:
\* clearNoteTimeout and onNotificationDismiss are called outside the updater.
EvictRemovalFires(i) ==
    /\ i \in DOMAIN timers
    /\ timers[i].kind = "evict"
    /\ CanFire(i)
    /\ notes' = Committed(RemoveNote(notes, timers[i].id))
    /\ timers' = ClearedTimers(DropAt(timers, i), timers[i].id)
    /\ dismissTimeouts' = ClearedMap(dismissTimeouts, timers[i].id)
    /\ calls' = Called(calls, timers[i].id)
    /\ UNCHANGED <<intervalRef, first, isGenerating, inflight, nextId,
                   autoGenerate, autoDismissTimeout, mounted, events>>
    /\ UNCHANGED <<genVars, uiVars>>

\* handleManualDismiss without the clearNoteTimeout call of line 374
HandleManualDismissKeepsTimer(k) ==
    /\ mounted
    /\ events < MaxEvents
    /\ events' = events + 1
    /\ k \in DOMAIN notes
    /\ notes' = MarkFading(notes, notes[k].id)
    /\ timers' = Append(timers, TimerRec("manual", notes[k].id, animationDuration, FALSE))
    /\ UNCHANGED <<dismissTimeouts, intervalRef, first, isGenerating, inflight, nextId,
                   autoGenerate, autoDismissTimeout, mounted, calls>>
    /\ UNCHANGED <<genVars, uiVars>>

\* handleManualDismiss(note), lines 371-386: the dismiss button of a rendered note
HandleManualDismiss(k) ==
    /\ mounted
    /\ events < MaxEvents
    /\ events' = events + 1
    /\ k \in DOMAIN notes
    /\ notes' = MarkFading(notes, notes[k].id)
    /\ timers' = Append(ClearedTimers(timers, notes[k].id),
                        TimerRec("manual", notes[k].id, animationDuration, FALSE))
    /\ dismissTimeouts' = ClearedMap(dismissTimeouts, notes[k].id)
    /\ UNCHANGED <<intervalRef, first, isGenerating, inflight, nextId,
                   autoGenerate, autoDismissTimeout, mounted, calls>>
    /\ UNCHANGED <<genVars, uiVars>>

----------------------------------------------------------------------------
\* The generator

\* addGeneratedNote without the isGenerating test of line 255
AddGeneratedNoteUnguarded ==
    IF ~autoGenerate
    THEN UNCHANGED <<isGenerating, inflight>>
    ELSE /\ isGenerating' = TRUE
         /\ inflight' = inflight + 1

\* addGeneratedNote up to its await, lines 253-258
AddGeneratedNote ==
    IF ~autoGenerate \/ isGenerating
    THEN UNCHANGED <<isGenerating, inflight>>
    ELSE /\ isGenerating' = TRUE
         /\ inflight' = inflight + 1

\* The setInterval callback, lines 319-321
IntervalFires ==
    /\ intervalRef = 0
    /\ intervalRef' = autoInterval
    /\ AddGeneratedNote
    /\ UNCHANGED <<notes, timers, dismissTimeouts, first, nextId, autoGenerate,
                   autoDismissTimeout, mounted, calls, events>>
    /\ UNCHANGED <<genVars, uiVars>>

\* The first delayed call, line 324
FirstFires ==
    /\ first = 0
    /\ first' = NoTimer
    /\ AddGeneratedNote
    /\ UNCHANGED <<notes, timers, dismissTimeouts, intervalRef, nextId,
                   autoGenerate, autoDismissTimeout, mounted, calls, events>>
    /\ UNCHANGED <<genVars, uiVars>>

\* The timers and the map after the auto-dismiss timer of a new note is set
\* (lines 284-287 and 291-294)
WithAutoDismiss(ts, id) ==
    IF autoDismissTimeout > 0
    THEN Append(ts, TimerRec("auto", id, autoDismissTimeout, TRUE))
    ELSE ts

MapWithAutoDismiss(m, id) == IF autoDismissTimeout > 0 THEN m \cup {id} ELSE m

\* The updater of addGeneratedNote without the clearNoteTimeout of line 277
InsertGeneratedKeepsTimer(id) ==
    LET nonFading == NonFading(notes) IN
    IF Len(nonFading) >= maxNotifications
    THEN LET oldest == nonFading[1].id
             scheduled == Append(timers, TimerRec("evict", oldest, animationDuration, FALSE))
         IN /\ notes' = Committed(Append(MarkFading(notes, oldest),
                                         NotificationItem(id, FALSE)))
            /\ timers' = WithAutoDismiss(scheduled, id)
            /\ dismissTimeouts' = MapWithAutoDismiss(dismissTimeouts, id)
    ELSE /\ notes' = Committed(Append(notes, NotificationItem(id, FALSE)))
         /\ timers' = WithAutoDismiss(timers, id)
         /\ dismissTimeouts' = MapWithAutoDismiss(dismissTimeouts, id)

\* The updater of addGeneratedNote, lines 260-297, for the new note's id
InsertGenerated(id) ==
    LET nonFading == NonFading(notes) IN
    IF Len(nonFading) >= maxNotifications
    THEN LET oldest == nonFading[1].id
             scheduled == Append(timers, TimerRec("evict", oldest, animationDuration, FALSE))
         IN /\ notes' = Committed(Append(MarkFading(notes, oldest),
                                         NotificationItem(id, FALSE)))
            /\ timers' = WithAutoDismiss(ClearedTimers(scheduled, oldest), id)
            /\ dismissTimeouts' = MapWithAutoDismiss(ClearedMap(dismissTimeouts, oldest), id)
    ELSE /\ notes' = Committed(Append(notes, NotificationItem(id, FALSE)))
         /\ timers' = WithAutoDismiss(timers, id)
         /\ dismissTimeouts' = MapWithAutoDismiss(dismissTimeouts, id)

\* A generation whose record takes the id of the previous generation again
GenerationResolvesReusesId ==
    /\ inflight > 0
    /\ nextId \in GenIds
    /\ \E ran \in UpdaterRuns :
          IF ran
          THEN InsertGenerated(IF nextId - 1 \in GenIds THEN nextId - 1 ELSE nextId)
          ELSE UNCHANGED <<notes, timers, dismissTimeouts>>
    /\ isGenerating' = FALSE
    /\ inflight' = inflight - 1
    /\ nextId' = nextId + 1
    /\ UNCHANGED <<intervalRef, first, autoGenerate, autoDismissTimeout, mounted, calls,
          events>>
    /\ UNCHANGED <<genVars, uiVars>>

\* addGeneratedNote after its await, without the finally block of lines 298-300
AddGeneratedNoteResumesKeepsGuard ==
    /\ inflight > 0
    /\ nextId \in GenIds
    /\ \E ran \in UpdaterRuns :
          IF ran
          THEN InsertGenerated(nextId)
          ELSE UNCHANGED <<notes, timers, dismissTimeouts>>
    /\ inflight' = inflight - 1
    /\ nextId' = nextId + 1
    /\ UNCHANGED <<isGenerating, intervalRef, first, autoGenerate, autoDismissTimeout,
                   mounted, calls, events>>

\* generateNotification resolves and addGeneratedNote resumes, lines 258-300.
\* The fetch has no timeout: once the uuids of the model are used, the next
\* generation stays in flight.
AddGeneratedNoteResumes ==
    /\ inflight > 0
    /\ nextId \in GenIds
    /\ \E ran \in UpdaterRuns :
          IF ran
          THEN InsertGenerated(nextId)
          ELSE UNCHANGED <<notes, timers, dismissTimeouts>>
    /\ isGenerating' = FALSE
    /\ inflight' = inflight - 1
    /\ nextId' = nextId + 1
    /\ UNCHANGED <<intervalRef, first, autoGenerate, autoDismissTimeout, mounted, calls,
          events>>

\* The generation as the queue sees it: the record arrives.
GenerationResolves == AddGeneratedNoteResumes /\ UNCHANGED <<genVars, uiVars>>

\* generateNotification that fetches whatever fixedUser is
GenStartsAlwaysFetches ==
    /\ inflight > 0
    /\ gpc = "idle"
    /\ gpc' = "fetching"
    /\ fetches' = fetches + 1
    /\ UNCHANGED <<fixedUser, outcome, users, surfaced>>
    /\ UNCHANGED <<queueVars, uiVars>>

\* generateNotification is called (line 258) and runs up to its await (line
\* 177): with a fixedUser there is nothing to wait for, without one the fetch
\* of fetchRandomUser (line 153) is made.
GenStarts ==
    /\ inflight > 0
    /\ gpc = "idle"
    /\ IF fixedUser # None
       THEN gpc' = "fixed" /\ fetches' = fetches
       ELSE gpc' = "fetching" /\ fetches' = fetches + 1
    /\ UNCHANGED <<fixedUser, outcome, users, surfaced>>
    /\ UNCHANGED <<queueVars, uiVars>>

\* The awaited generateNotification settles and addGeneratedNote goes on,
\* lines 258-300: with a record its updater runs; with an error only the
\* finally block runs and the error leaves addGeneratedNote.
GenSettles ==
    /\ gpc # "idle"
    /\ nextId \in GenIds
    /\ \E o \in (IF gpc = "fetching" THEN Outcomes ELSE {NoOutcome}),
          n \in DOMAIN FallbackNames :
          LET r == GenerateNotification(fixedUser, o, n) IN
          /\ outcome' = o
          /\ IF r = Throws
             THEN /\ isGenerating' = FALSE
                  /\ inflight' = inflight - 1
                  /\ surfaced' = TRUE
                  /\ UNCHANGED <<notes, timers, dismissTimeouts, intervalRef, first,
                                 nextId, autoGenerate, autoDismissTimeout, mounted,
                                 calls, events, users>>
             ELSE /\ AddGeneratedNoteResumes
                  /\ users' = [users EXCEPT ![nextId] = r]
                  /\ UNCHANGED surfaced
    /\ gpc' = "idle"
    /\ UNCHANGED <<fixedUser, fetches>>
    /\ UNCHANGED uiVars

----------------------------------------------------------------------------
\* The caller

\* The batches the caller supplies: non-empty, ids distinct (they are React
\* keys) and, ids being opaque, in ascending order.
Batches ==
    {b \in UNION {[1..n -> BatchIds] : n \in 1..NumBatchIds} :
        \A i \in 1..(Len(b) - 1) : b[i] < b[i + 1]}

\* The auto-dismiss timers of a batch, lines 351-356: the map keeps the handle
\* of the last timer set for an id.
BatchTimers(b) ==
    IF autoDismissTimeout > 0
    THEN [i \in 1..Len(b) |->
             TimerRec("auto", b[i], autoDismissTimeout,
                      \A j \in (i + 1)..Len(b) : b[j] # b[i])]
    ELSE <<>>

\* The notifications sync effect without the clearTimeout calls of line 347
SyncNotificationsKeepsTimers(b) ==
    /\ mounted
    /\ events < MaxEvents
    /\ events' = events + 1
    /\ timers' = timers \o BatchTimers(b)
    /\ notes' = [i \in 1..Len(b) |-> NotificationItem(b[i], FALSE)]
    /\ dismissTimeouts' = IF autoDismissTimeout > 0 THEN {b[i] : i \in 1..Len(b)} ELSE {}
    /\ UNCHANGED <<intervalRef, first, isGenerating, inflight, nextId,
                   autoGenerate, autoDismissTimeout, mounted, calls>>
    /\ UNCHANGED <<genVars, uiVars>>

\* The notifications sync effect, lines 344-359, for a new non-empty batch
SyncNotifications(b) ==
    /\ mounted
    /\ events < MaxEvents
    /\ events' = events + 1
    /\ timers' = SelectSeq(timers, LAMBDA t : ~t.tracked) \o BatchTimers(b)
    /\ notes' = [i \in 1..Len(b) |-> NotificationItem(b[i], FALSE)]
    /\ dismissTimeouts' = IF autoDismissTimeout > 0 THEN {b[i] : i \in 1..Len(b)} ELSE {}
    /\ UNCHANGED <<intervalRef, first, isGenerating, inflight, nextId,
                   autoGenerate, autoDismissTimeout, mounted, calls>>
    /\ UNCHANGED <<genVars, uiVars>>

\* The interval effect, lines 315-341, when the autoGenerate prop changes:
\* the previous run's cleanup, then the new run.
SetAutoGenerate(v) ==
    /\ mounted
    /\ events < MaxEvents
    /\ events' = events + 1
    /\ v # autoGenerate
    /\ autoGenerate' = v
    /\ intervalRef' = IF v THEN autoInterval ELSE NoTimer
    /\ first' = IF v THEN firstDelay ELSE NoTimer
    /\ UNCHANGED <<notes, timers, dismissTimeouts, isGenerating, inflight, nextId,
                   autoDismissTimeout, mounted, calls>>
    /\ UNCHANGED <<genVars, uiVars>>

\* Unmount: the cleanups of the interval effect (lines 326-332) and of the
\* unmount effect (lines 362-368)
Unmount ==
    /\ mounted
    /\ mounted' = FALSE
    /\ intervalRef' = NoTimer
    /\ first' = NoTimer
    /\ timers' = SelectSeq(timers, LAMBDA t : ~t.tracked)
    /\ dismissTimeouts' = {}
    /\ UNCHANGED <<notes, isGenerating, inflight, nextId, autoGenerate,
                   autoDismissTimeout, calls, events>>
    /\ UNCHANGED <<genVars, uiVars>>

\* One tick passes; no timer is due.
Tick ==
    /\ intervalRef # 0
    /\ first # 0
    /\ \A i \in DOMAIN timers : timers[i].rem > 0
    /\ intervalRef > 0 \/ first > 0 \/ timers # <<>>
    /\ intervalRef' = IF intervalRef > 0 THEN intervalRef - 1 ELSE intervalRef
    /\ first' = IF first > 0 THEN first - 1 ELSE first
    /\ timers' = [i \in DOMAIN timers |-> [timers[i] EXCEPT !.rem = @ - 1]]
    /\ UNCHANGED <<notes, dismissTimeouts, isGenerating, inflight, nextId,
                   autoGenerate, autoDismissTimeout, mounted, calls, events>>
    /\ UNCHANGED <<genVars, uiVars>>

Next ==
    \/ \E i \in DOMAIN timers : AutoDismissFires(i)
    \/ \E i \in DOMAIN timers : DismissRemovalFires(i)
    \/ \E i \in DOMAIN timers : ManualRemovalFires(i)
    \/ \E i \in DOMAIN timers : EvictRemovalFires(i)
    \/ \E k \in DOMAIN notes : HandleManualDismiss(k)
    \/ IntervalFires
    \/ FirstFires
    \/ GenerationResolves
    \/ \E b \in Batches : SyncNotifications(b)
    \/ \E v \in BOOLEAN : SetAutoGenerate(v)
    \/ Unmount
    \/ Tick

Spec == Init /\ [][Next]_vars

\* The generator alone, with the fetch of each generation: no event of the user
\* or the caller after the mount, no unmount.
InitialBatches == {<<>>, <<1>>}

\* Mounted with or without a notifications prop (the sync effect has run on
\* the mount, lines 344-359) and with or without a fixedUser.
GenInit ==
    /\ RefsInit
    /\ \E b \in InitialBatches :
          /\ notes = [i \in 1..Len(b) |-> NotificationItem(b[i], FALSE)]
          /\ timers = BatchTimers(b)
          /\ dismissTimeouts
                = IF autoDismissTimeout > 0 THEN {b[i] : i \in 1..Len(b)} ELSE {}
    /\ GenIdle
    /\ fixedUser \in Maybe(FixedUsers)
    /\ UiInit

GenNext ==
    \/ \E i \in DOMAIN timers : AutoDismissFires(i)
    \/ \E i \in DOMAIN timers : DismissRemovalFires(i)
    \/ \E i \in DOMAIN timers : EvictRemovalFires(i)
    \/ IntervalFires
    \/ FirstFires
    \/ GenStarts
    \/ GenSettles
    \/ Tick

GenSpec == GenInit /\ [][GenNext]_vars

----------------------------------------------------------------------------
\* The provider contexts of the component library

MaxDepth == 2         \* providers nested above the element being rendered

\* The components that render a Context.Provider
Providers == {"Popover", "Collapsible", "Drawer", "DropdownMenu", "SidebarProvider",
              "Accordion", "AccordionItem", "Menubar", "Tooltip"}

\* The sub-components that read a context, by provider
PopoverParts      == {"PopoverTrigger", "PopoverContent"}
CollapsibleParts  == {"CollapsibleTrigger", "CollapsibleContent"}
DrawerParts       == {"DrawerTrigger", "DrawerContent", "DrawerClose"}
DropdownMenuParts == {"DropdownMenuTrigger", "DropdownMenuContent", "DropdownMenuItem"}
SidebarParts      == {"Sidebar", "SidebarTrigger", "SidebarHeader", "SidebarGroupLabel",
                      "SidebarMenuButton", "SidebarFooter"}
AccordionParts    == {"AccordionTrigger", "AccordionContent"}
MenubarParts      == {"MenubarTrigger", "MenubarContent", "MenubarItem"}
TooltipParts      == {"TooltipTrigger", "TooltipContentDisplay"}

Consumers == PopoverParts \cup CollapsibleParts \cup DrawerParts \cup DropdownMenuParts
                 \cup SidebarParts \cup AccordionParts \cup MenubarParts \cup TooltipParts

\* The contexts a sub-component reads, in the order it reads them
Needs(c) ==
    IF c \in PopoverParts THEN <<"Popover">>
    ELSE IF c \in CollapsibleParts THEN <<"Collapsible">>
    ELSE IF c \in DrawerParts THEN <<"Drawer">>
    ELSE IF c \in DropdownMenuParts THEN <<"DropdownMenu">>
    ELSE IF c \in SidebarParts THEN <<"SidebarProvider">>
    ELSE IF c \in AccordionParts THEN <<"Accordion", "AccordionItem">>
    ELSE IF c \in MenubarParts THEN <<"Menubar">>
    ELSE <<"Tooltip">>

\* The sub-components that call React.Children.only(children) when asChild is set
UsesChildrenOnly == {"DropdownMenuTrigger", "SidebarMenuButton"}

\* React.useContext that finds a value wherever it is called
UseContextWithDefault(ctx, path) == Some(ctx)

\* React.useContext(ctx) under the providers of path: the value of the provider
\* if there is one above (every provider passes an object), else the default
\* of createContext, undefined
UseContext(ctx, path) ==
    IF \E i \in DOMAIN path : path[i] = ctx THEN Some(ctx) ELSE None

\* What the render of sub-component c throws: the context checks come first
\* (if (!context) throw new Error("... must be used within ...")), then
\* React.Children.only
RenderOf(c, path, asChild, single) ==
    IF \E i \in DOMAIN Needs(c) : UseContext(Needs(c)[i], path) = None
    THEN "context"
    ELSE IF c \in UsesChildrenOnly /\ asChild /\ ~single THEN "children"
    ELSE "none"

\* A provider is rendered below the current ones.
RenderProvider(p) ==
    /\ Len(ancestors) < MaxDepth
    /\ ancestors' = Append(ancestors, p)
    /\ UNCHANGED <<rendered, error>>
    /\ UNCHANGED <<queueVars, genVars, accVars, tipVars, menuVars, openVars>>

\* The subtree of the innermost provider is complete.
LeaveProvider ==
    /\ ancestors # <<>>
    /\ ancestors' = SubSeq(ancestors, 1, Len(ancestors) - 1)
    /\ UNCHANGED <<rendered, error>>
    /\ UNCHANGED <<queueVars, genVars, accVars, tipVars, menuVars, openVars>>

\* Sub-component c is rendered below the current providers; asChild is its
\* prop, single says whether its children are one element.
RenderConsumer(c, asChild, single) ==
    /\ rendered' = c
    /\ error' = RenderOf(c, ancestors, asChild, single)
    /\ UNCHANGED ancestors
    /\ UNCHANGED <<queueVars, genVars, accVars, tipVars, menuVars, openVars>>

RenderNext ==
    \/ \E p \in Providers : RenderProvider(p)
    \/ LeaveProvider
    \/ \E c \in Consumers, asChild \in BOOLEAN, single \in BOOLEAN :
          RenderConsumer(c, asChild, single)

RenderSpec == Init /\ [][RenderNext]_vars

----------------------------------------------------------------------------
\* The Accordion

\* The Accordion mounts: useState takes the cut normalised value, or the
\* defaultValue (default []) when value is undefined; the effect is pending.
AccInit ==
    /\ accType \in {"single", "multiple"}
    /\ accCollapsible \in BOOLEAN
    /\ accValue \in ValueProps
    /\ \E defaultValue \in ValueProps :
          LET dflt == IF defaultValue = Undefined THEN ArrayProp(<<>>) ELSE defaultValue
              initialValues == normalizeValue(IF accValue # Undefined THEN accValue ELSE dflt)
          IN accValues = SingleCut(accType, initialValues)
    /\ accPending = TRUE
    /\ accChanged = None

\* The parent renders the Accordion with another value prop.
AccSetValue(v) ==
    /\ v # accValue
    /\ accValue' = v
    /\ accPending' = TRUE
    /\ UNCHANGED <<accType, accCollapsible, accValues, accChanged>>
    /\ UNCHANGED <<queueVars, genVars, ctxVars, tipVars, menuVars, openVars>>

\* The effect on [value, type] runs: a defined value replaces the state.
AccSyncEffect ==
    /\ accPending
    /\ accPending' = FALSE
    /\ accValues' = IF accValue # Undefined
                    THEN SingleCut(accType, normalizeValue(accValue))
                    ELSE accValues
    /\ UNCHANGED <<accType, accCollapsible, accValue, accChanged>>
    /\ UNCHANGED <<queueVars, genVars, ctxVars, tipVars, menuVars, openVars>>

\* handleValueChange(item): a trigger is clicked. Pending effects are flushed
\* before an event handler runs.
AccClick(item) ==
    /\ ~accPending
    /\ LET newValues == NewValues(accType, accCollapsible, accValues, item)
       IN /\ accValues' = IF accValue = Undefined THEN newValues ELSE accValues
          /\ accChanged' = Some(newValues)
    /\ UNCHANGED <<accType, accCollapsible, accValue, accPending>>
    /\ UNCHANGED <<queueVars, genVars, ctxVars, tipVars, menuVars, openVars>>

AccNext ==
    \/ \E v \in ValueProps : AccSetValue(v)
    \/ AccSyncEffect
    \/ \E item \in AccordionItems : AccClick(item)

\* Only an Accordion is rendered.
AccordionInit ==
    /\ QueueInit /\ GenIdle /\ fixedUser = None
    /\ CtxInit /\ AccInit /\ TipIdle /\ MenuIdle /\ OpenIdle

AccordionSpec == AccordionInit /\ [][AccNext]_vars

----------------------------------------------------------------------------
\* The Tooltip

\* The Tooltip mounts, controlled (open prop given) or not, with defaultOpen.
TipInit ==
    /\ tipOpenProp \in Maybe(BOOLEAN)
    /\ tipUncontrolledOpen \in BOOLEAN
    /\ tipDisabled \in BOOLEAN
    /\ TipRefsInit

\* const open = isControlled ? controlledOpen : uncontrolledOpen
TipOpen == IF tipOpenProp # None THEN tipOpenProp[1] ELSE tipUncontrolledOpen

\* setOpen(value) with a boolean: the state when uncontrolled, then onOpenChange
TipSetOpen(value) ==
    /\ tipUncontrolledOpen' = IF tipOpenProp = None THEN value ELSE tipUncontrolledOpen
    /\ tipChanged' = Some(value)

\* The timers pending now, by name
TipPending ==
    {k \in {"show", "hide"} : IF k = "show" THEN tipShow # NoTimer ELSE tipHide # NoTimer}

\* if (ref.current) { clearTimeout(ref.current); ref.current = null }: the
\* ticks left of a timer after the test and the clear
TipClear(ref, timer) == IF ref THEN NoTimer ELSE timer

\* handleMouseLeave that clears the hide timer only
TooltipMouseLeaveKeepsShow ==
    /\ tipMounted /\ ~tipDisabled
    /\ tipHide' = hideDelay
    /\ tipHideRef' = TRUE
    /\ tipLast' = "leave"
    /\ tipSince' = 0
    /\ tipCleared' = {}
    /\ UNCHANGED <<tipShow, tipShowRef>>
    /\ UNCHANGED <<tipOpenProp, tipUncontrolledOpen, tipDisabled, tipChanged, tipMounted>>
    /\ UNCHANGED <<queueVars, genVars, ctxVars, accVars, menuVars, openVars>>

\* handleMouseEnter: both timers are cleared, the show timer is started.
TooltipMouseEnter ==
    /\ tipMounted /\ ~tipDisabled
    /\ tipHide' = TipClear(tipHideRef, tipHide)
    /\ tipHideRef' = FALSE
    /\ tipShow' = delayDuration
    /\ tipShowRef' = TRUE
    /\ tipLast' = "enter"
    /\ tipSince' = 0
    /\ tipCleared' = {k \in TipPending :
                         IF k = "show" THEN tipShowRef ELSE tipHideRef}
    /\ UNCHANGED <<tipOpenProp, tipUncontrolledOpen, tipDisabled, tipChanged, tipMounted>>
    /\ UNCHANGED <<queueVars, genVars, ctxVars, accVars, menuVars, openVars>>

\* handleMouseLeave: both timers are cleared, the hide timer is started.
TooltipMouseLeave ==
    /\ tipMounted /\ ~tipDisabled
    /\ tipShow' = TipClear(tipShowRef, tipShow)
    /\ tipShowRef' = FALSE
    /\ tipHide' = hideDelay
    /\ tipHideRef' = TRUE
    /\ tipLast' = "leave"
    /\ tipSince' = 0
    /\ tipCleared' = {k \in TipPending :
                         IF k = "show" THEN tipShowRef ELSE tipHideRef}
    /\ UNCHANGED <<tipOpenProp, tipUncontrolledOpen, tipDisabled, tipChanged, tipMounted>>
    /\ UNCHANGED <<queueVars, genVars, ctxVars, accVars, menuVars, openVars>>

\* The show timer fires: setOpen(true). The ref keeps the spent id.
TooltipShowFires ==
    /\ tipShow = 0
    /\ tipShow' = NoTimer
    /\ TipSetOpen(TRUE)
    /\ UNCHANGED <<tipOpenProp, tipDisabled, tipHide, tipShowRef, tipHideRef,
                   tipLast, tipSince, tipCleared, tipMounted>>
    /\ UNCHANGED <<queueVars, genVars, ctxVars, accVars, menuVars, openVars>>

\* The hide timer fires: setOpen(false). The ref keeps the spent id.
TooltipHideFires ==
    /\ tipHide = 0
    /\ tipHide' = NoTimer
    /\ TipSetOpen(FALSE)
    /\ UNCHANGED <<tipOpenProp, tipDisabled, tipShow, tipShowRef, tipHideRef,
                   tipLast, tipSince, tipCleared, tipMounted>>
    /\ UNCHANGED <<queueVars, genVars, ctxVars, accVars, menuVars, openVars>>

\* onFocus / onBlur of the trigger: setOpen(true) / setOpen(false), no timer
TooltipFocusOrBlur(value) ==
    /\ tipMounted /\ ~tipDisabled
    /\ TipSetOpen(value)
    /\ UNCHANGED <<tipOpenProp, tipDisabled, tipShow, tipHide, tipShowRef, tipHideRef,
                   tipLast, tipSince, tipCleared, tipMounted>>
    /\ UNCHANGED <<queueVars, genVars, ctxVars, accVars, menuVars, openVars>>

\* The parent of a controlled Tooltip passes another open prop.
TooltipSetOpenProp(value) ==
    /\ tipMounted
    /\ tipOpenProp # None /\ tipOpenProp # Some(value)
    /\ tipOpenProp' = Some(value)
    /\ UNCHANGED <<tipUncontrolledOpen, tipDisabled, tipShow, tipHide, tipShowRef,
                   tipHideRef, tipLast, tipSince, tipCleared, tipChanged, tipMounted>>
    /\ UNCHANGED <<queueVars, genVars, ctxVars, accVars, menuVars, openVars>>

\* The parent switches the disabled prop; the trigger and its handlers come
\* and go with it, pending timers stay.
TooltipSetDisabled ==
    /\ tipMounted
    /\ tipDisabled' = ~tipDisabled
    /\ UNCHANGED <<tipOpenProp, tipUncontrolledOpen, tipShow, tipHide, tipShowRef,
                   tipHideRef, tipLast, tipSince, tipCleared, tipChanged, tipMounted>>
    /\ UNCHANGED <<queueVars, genVars, ctxVars, accVars, menuVars, openVars>>

\* The unmount cleanup clears both timers and leaves the refs as they are.
TooltipUnmount ==
    /\ tipMounted
    /\ tipMounted' = FALSE
    /\ tipShow' = TipClear(tipShowRef, tipShow)
    /\ tipHide' = TipClear(tipHideRef, tipHide)
    /\ UNCHANGED <<tipOpenProp, tipUncontrolledOpen, tipDisabled, tipShowRef,
                   tipHideRef, tipLast, tipSince, tipCleared, tipChanged>>
    /\ UNCHANGED <<queueVars, genVars, ctxVars, accVars, menuVars, openVars>>

\* A tick passes when no timer of the Tooltip is due.
TooltipTick ==
    /\ tipMounted
    /\ tipShow # 0 /\ tipHide # 0
    /\ tipShow' = IF tipShow = NoTimer THEN NoTimer ELSE tipShow - 1
    /\ tipHide' = IF tipHide = NoTimer THEN NoTimer ELSE tipHide - 1
    /\ tipSince' = IF tipSince < delayDuration THEN tipSince + 1 ELSE tipSince
    /\ UNCHANGED <<tipOpenProp, tipUncontrolledOpen, tipDisabled, tipShowRef,
                   tipHideRef, tipLast, tipCleared, tipChanged, tipMounted>>
    /\ UNCHANGED <<queueVars, genVars, ctxVars, accVars, menuVars, openVars>>

TooltipNext ==
    \/ TooltipMouseEnter
    \/ TooltipMouseLeave
    \/ TooltipShowFires
    \/ TooltipHideFires
    \/ \E value \in BOOLEAN : TooltipFocusOrBlur(value)
    \/ \E value \in BOOLEAN : TooltipSetOpenProp(value)
    \/ TooltipSetDisabled
    \/ TooltipUnmount
    \/ TooltipTick

\* Only a Tooltip is rendered.
TooltipInit ==
    /\ QueueInit /\ GenIdle /\ fixedUser = None
    /\ CtxInit /\ AccIdle /\ TipInit /\ MenuIdle /\ OpenIdle

TooltipSpec == TooltipInit /\ [][TooltipNext]_vars

----------------------------------------------------------------------------
\* The DropdownMenu

\* The DropdownMenu mounts closed, in hover mode or not, controlled or not.
MenuInit ==
    /\ menuHover \in BOOLEAN
    /\ menuOpenProp \in {None, Some(FALSE)}
    /\ menuUncontrolledOpen = FALSE
    /\ MenuRefsInit

\* const open = isControlled ? controlledOpen : uncontrolledOpen
MenuOpen == IF menuOpenProp # None THEN menuOpenProp[1] ELSE menuUncontrolledOpen

\* The content is rendered only while the menu is open: when it goes, the
\* pointer that was over it is over the page.
PointerAfter(open) ==
    IF menuPointer = "content" /\ ~open THEN "outside" ELSE menuPointer

\* setOpen(value) asked for by cause: the state when uncontrolled, else
\* onOpenChange(value), which the parent follows later
MenuSetOpen(value, cause) ==
    /\ menuUncontrolledOpen' = IF menuOpenProp = None THEN value ELSE menuUncontrolledOpen
    /\ menuRequested' = IF menuOpenProp = None THEN menuRequested ELSE Some(value)
    /\ menuOpenedBy' = IF value /\ ~MenuOpen THEN cause
                       ELSE IF ~value THEN "none" ELSE menuOpenedBy
    /\ UNCHANGED menuOpenProp

\* timeoutRef.current = setTimeout(() => setOpen(kind = "open"), delay), or
\* the timer left as it is outside hover mode
MenuArm(kind, delay) ==
    /\ menuTimer' = IF menuHover THEN delay ELSE menuTimer
    /\ menuTimerKind' = IF menuHover THEN kind ELSE menuTimerKind

\* if (hoverMode && timeoutRef.current) clearTimeout(timeoutRef.current)
MenuDisarm ==
    /\ menuTimer' = IF menuHover THEN NoTimer ELSE menuTimer
    /\ menuTimerKind' = IF menuHover THEN "none" ELSE menuTimerKind

\* The pointer moves onto the trigger: from the content its onMouseLeave runs
\* first, then handleMouseEnter clears the timer and schedules the opening.
MenuPointerToTrigger ==
    /\ menuMounted
    /\ menuPointer # "trigger"
    /\ menuPointer' = "trigger"
    /\ MenuArm("open", hoverOpenDelay)
    /\ UNCHANGED <<menuHover, menuOpenProp, menuUncontrolledOpen, menuRequested,
                   menuOpenedBy, menuMounted>>
    /\ UNCHANGED <<queueVars, genVars, ctxVars, accVars, tipVars, openVars>>

\* The pointer moves onto the open menu: the button has no onMouseLeave, the
\* content's onMouseEnter clears the timer.
MenuPointerToContent ==
    /\ menuMounted
    /\ MenuOpen
    /\ menuPointer # "content"
    /\ menuPointer' = "content"
    /\ MenuDisarm
    /\ UNCHANGED <<menuHover, menuOpenProp, menuUncontrolledOpen, menuRequested,
                   menuOpenedBy, menuMounted>>
    /\ UNCHANGED <<queueVars, genVars, ctxVars, accVars, tipVars, openVars>>

\* The pointer moves off the trigger and the menu: the content's onMouseLeave
\* schedules the closing, the button has no onMouseLeave.
MenuPointerToOutside ==
    /\ menuMounted
    /\ menuPointer # "outside"
    /\ menuPointer' = "outside"
    /\ IF menuPointer = "content"
       THEN MenuArm("close", hoverCloseDelay)
       ELSE UNCHANGED <<menuTimer, menuTimerKind>>
    /\ UNCHANGED <<menuHover, menuOpenProp, menuUncontrolledOpen, menuRequested,
                   menuOpenedBy, menuMounted>>
    /\ UNCHANGED <<queueVars, genVars, ctxVars, accVars, tipVars, openVars>>

\* The timer set by handleMouseEnter fires: setOpen(true).
MenuOpenFires ==
    /\ menuTimer = 0 /\ menuTimerKind = "open"
    /\ menuTimer' = NoTimer
    /\ menuTimerKind' = "none"
    /\ MenuSetOpen(TRUE, "hover")
    /\ UNCHANGED <<menuHover, menuPointer, menuMounted>>
    /\ UNCHANGED <<queueVars, genVars, ctxVars, accVars, tipVars, openVars>>

\* The timer set by the content's onMouseLeave fires: setOpen(false).
MenuCloseFires ==
    /\ menuTimer = 0 /\ menuTimerKind = "close"
    /\ menuTimer' = NoTimer
    /\ menuTimerKind' = "none"
    /\ MenuSetOpen(FALSE, "none")
    /\ menuPointer' = PointerAfter(menuOpenProp # None /\ MenuOpen)
    /\ UNCHANGED <<menuHover, menuMounted>>
    /\ UNCHANGED <<queueVars, genVars, ctxVars, accVars, tipVars, openVars>>

\* handleClick of the trigger: in hover mode the timer is cleared and the
\* menu opened, else the menu is toggled.
MenuClickTrigger ==
    /\ menuMounted
    /\ menuPointer = "trigger"
    /\ MenuDisarm
    /\ MenuSetOpen(IF menuHover THEN TRUE ELSE ~MenuOpen, "click")
    /\ UNCHANGED <<menuHover, menuPointer, menuMounted>>
    /\ UNCHANGED <<queueVars, genVars, ctxVars, accVars, tipVars, openVars>>

\* handleClickOutside: a mousedown outside the open menu and the trigger.
MenuClickOutside ==
    /\ menuMounted
    /\ MenuOpen
    /\ menuPointer = "outside"
    /\ MenuSetOpen(FALSE, "none")
    /\ UNCHANGED <<menuHover, menuTimer, menuTimerKind, menuPointer, menuMounted>>
    /\ UNCHANGED <<queueVars, genVars, ctxVars, accVars, tipVars, openVars>>

\* The parent of a controlled menu passes the value its onOpenChange was given.
MenuParentFollows ==
    /\ menuMounted
    /\ menuOpenProp # None /\ menuRequested # None
    /\ menuOpenProp' = menuRequested
    /\ menuRequested' = None
    /\ menuPointer' = PointerAfter(menuRequested[1])
    /\ UNCHANGED <<menuHover, menuUncontrolledOpen, menuTimer, menuTimerKind,
                   menuOpenedBy, menuMounted>>
    /\ UNCHANGED <<queueVars, genVars, ctxVars, accVars, tipVars, openVars>>

\* The unmount cleanup clears the timer.
MenuUnmount ==
    /\ menuMounted
    /\ menuMounted' = FALSE
    /\ menuTimer' = NoTimer
    /\ menuTimerKind' = "none"
    /\ UNCHANGED <<menuHover, menuOpenProp, menuUncontrolledOpen, menuRequested,
                   menuPointer, menuOpenedBy>>
    /\ UNCHANGED <<queueVars, genVars, ctxVars, accVars, tipVars, openVars>>

\* A tick of the pending timer passes.
MenuTick ==
    /\ menuTimer > 0
    /\ menuTimer' = menuTimer - 1
    /\ UNCHANGED <<menuHover, menuOpenProp, menuUncontrolledOpen, menuRequested,
                   menuTimerKind, menuPointer, menuOpenedBy, menuMounted>>
    /\ UNCHANGED <<queueVars, genVars, ctxVars, accVars, tipVars, openVars>>

MenuNext ==
    \/ MenuPointerToTrigger
    \/ MenuPointerToContent
    \/ MenuPointerToOutside
    \/ MenuOpenFires
    \/ MenuCloseFires
    \/ MenuClickTrigger
    \/ MenuClickOutside
    \/ MenuParentFollows
    \/ MenuUnmount
    \/ MenuTick

\* Only a DropdownMenu is rendered.
DropdownMenuInit ==
    /\ QueueInit /\ GenIdle /\ fixedUser = None
    /\ CtxInit /\ AccIdle /\ TipIdle /\ MenuInit /\ OpenIdle

\* Time passes, due timers fire and the parent of a controlled menu follows
\* its onOpenChange; the user is free to do nothing.
DropdownMenuSpec ==
    /\ DropdownMenuInit
    /\ [][MenuNext]_vars
    /\ WF_vars(MenuTick)
    /\ WF_vars(MenuOpenFires)
    /\ WF_vars(MenuCloseFires)
    /\ WF_vars(MenuParentFollows)

----------------------------------------------------------------------------
\* Popover, Drawer, Collapsible, SidebarProvider: controlled or own state

MaxRequests == 3      \* requests to open or close

OpenComponents == {"Popover", "Drawer", "Collapsible", "SidebarProvider"}

\* What a request asks for: Popover and Drawer also take an updater function
\* (prev => !prev)
Requests(kind) ==
    IF kind \in {"Popover", "Drawer"} THEN {"open", "close", "toggle"}
    ELSE {"open", "close"}

\* typeof value === "function" ? value(prev) : value
Resolve(request, prev) ==
    IF request = "open" THEN TRUE
    ELSE IF request = "close" THEN FALSE
    ELSE ~prev

\* The component mounts: controlled or not, with its default state, with or
\* without a change callback; only the Collapsible has a disabled prop.
OpenInit ==
    /\ openKind \in OpenComponents
    /\ openProp \in Maybe(BOOLEAN)
    /\ openState \in BOOLEAN
    /\ openDisabled \in (IF openKind = "Collapsible" THEN BOOLEAN ELSE {FALSE})
    /\ openHasCallback \in BOOLEAN
    /\ OpenRefsInit

\* const open = isControlled ? controlledOpen : uncontrolledOpen
OpenShown == IF openProp # None THEN openProp[1] ELSE openState

\* setOpen that sets the state in controlled mode too
SetOpenAlwaysSetsState(request) ==
    /\ openState' = Resolve(request, openState)
    /\ openCalls' = IF openHasCallback THEN openCalls + 1 ELSE openCalls
    /\ openLast' = IF openHasCallback THEN Some(Resolve(request, OpenShown)) ELSE openLast

\* setOpen of Popover and Drawer, setExpanded of SidebarProvider: the state
\* when uncontrolled, then the callback if there is one
SetOpen(request) ==
    /\ openState' = IF openProp = None THEN Resolve(request, openState) ELSE openState
    /\ openCalls' = IF openHasCallback THEN openCalls + 1 ELSE openCalls
    /\ openLast' = IF openHasCallback THEN Some(Resolve(request, OpenShown)) ELSE openLast

\* handleOpenChange of Collapsible: nothing when disabled, else as setOpen
handleOpenChange(request) ==
    IF openDisabled
    THEN UNCHANGED <<openState, openCalls, openLast>>
    ELSE SetOpen(request)

\* A trigger, a close button or an outside click asks the component to open
\* or close.
OpenRequest(request) ==
    /\ openRequests < MaxRequests
    /\ request \in Requests(openKind)
    /\ openRequests' = openRequests + 1
    /\ IF openKind = "Collapsible" THEN handleOpenChange(request) ELSE SetOpen(request)
    /\ UNCHANGED <<openKind, openProp, openDisabled, openHasCallback>>
    /\ UNCHANGED <<queueVars, genVars, ctxVars, accVars, tipVars, menuVars>>

\* The parent of a controlled component passes another open / expanded prop.
OpenSetProp(value) ==
    /\ openProp # None /\ openProp # Some(value)
    /\ openProp' = Some(value)
    /\ UNCHANGED <<openKind, openState, openDisabled, openHasCallback,
                   openRequests, openCalls, openLast>>
    /\ UNCHANGED <<queueVars, genVars, ctxVars, accVars, tipVars, menuVars>>

\* The parent of a Collapsible switches its disabled prop.
OpenSetDisabled ==
    /\ openKind = "Collapsible"
    /\ openDisabled' = ~openDisabled
    /\ UNCHANGED <<openKind, openProp, openState, openHasCallback,
                   openRequests, openCalls, openLast>>
    /\ UNCHANGED <<queueVars, genVars, ctxVars, accVars, tipVars, menuVars>>

OpenNext ==
    \/ \E request \in {"open", "close", "toggle"} : OpenRequest(request)
    \/ \E value \in BOOLEAN : OpenSetProp(value)
    \/ OpenSetDisabled

\* Only one of the four components is rendered.
OpenComponentInit ==
    /\ QueueInit /\ GenIdle /\ fixedUser = None
    /\ CtxInit /\ AccIdle /\ TipIdle /\ MenuIdle /\ OpenInit

OpenSpec == OpenComponentInit /\ [][OpenNext]_vars

----------------------------------------------------------------------------
\* Steps named by the properties below

\* The caller replaces the queue wholesale.
Replacement == \E b \in Batches : SyncNotifications(b)

\* A fade-out removal callback for timer i runs.
RemovalFires(i) == DismissRemovalFires(i) \/ ManualRemovalFires(i) \/ EvictRemovalFires(i)

\* Some timer callback of the component runs.
TimerCallbackRuns ==
    \/ IntervalFires
    \/ FirstFires
    \/ \E i \in DOMAIN timers : AutoDismissFires(i) \/ RemovalFires(i)

\* The pending timers of one id.
TimersOf(id) == {i \in DOMAIN timers : timers[i].id = id}

\* A record with this id is in the queue s.
InQueue(s, id) == FindNote(s, id) # 0

----------------------------------------------------------------------------
\* C1: in every reachable state the number of records whose fadingOut flag is
\* not set is at most maxNotifications, whatever insertions, batches, evictions
\* and dismissals came before.
C1_NonFadingWithinMax == Len(NonFading(notes)) <= maxNotifications

\* C2: onNotificationDismiss is called at most once for a record, whichever
\* triggers start and repeat its dismissal (stated for generated records, whose
\* uuid names one record over the whole run).
C2_DismissCallbackOnce == \A id \in GenIds : calls[id] <= 1

\* C3: a dismissal request for a record that is already fadingOut, from
\* handleManualDismiss or from the auto-dismiss timer, changes nothing: not the
\* queue, not the pending timers (but for the timer that made the request), not
\* the calls of onNotificationDismiss.
C3_FadingDismissIsNoOp ==
    [][ /\ \A k \in DOMAIN notes :
              (notes[k].fadingOut /\ HandleManualDismiss(k))
                  => UNCHANGED <<notes, timers, calls>>
        /\ \A i \in DOMAIN timers :
              (/\ mounted
               /\ InQueue(notes, timers[i].id)
               /\ notes[FindNote(notes, timers[i].id)].fadingOut
               /\ AutoDismissFires(i))
                  => (notes' = notes /\ timers' = DropAt(timers, i) /\ calls' = calls)
      ]_vars

\* C4: a record evicted by a generator insertion stays in the queue, fadingOut,
\* until the removal timer of its eviction runs (animationDuration later): no
\* other step but a wholesale replacement takes it out of the queue before.
C4_EvictedStaysUntilRemoval ==
    [][ (mounted /\ ~Replacement) =>
            \A i \in DOMAIN timers :
                (timers[i].kind = "evict" /\ InQueue(notes, timers[i].id)
                    /\ ~EvictRemovalFires(i))
                    => InQueue(notes', timers[i].id)
      ]_vars

\* C5: a wholesale replacement leaves no timer pending that was scheduled before
\* it (a pending timer runs once its delay has passed): the per-note timers
\* pending after it are the auto-dismiss timers it has set itself.
C5_ReplacementCancelsTimers ==
    [][ Replacement => \A i \in DOMAIN timers' :
                          timers'[i].kind = "auto" /\ timers'[i].tracked
                             /\ timers'[i].rem = autoDismissTimeout ]_vars

\* C6: a removal callback scheduled by dismissNotification or by an eviction
\* that runs when its record is no longer in the queue changes nothing: the
\* queue is unchanged and onNotificationDismiss is not called.
C6_StaleRemovalIsNoOp ==
    [][ \A i \in DOMAIN timers :
            (/\ mounted
             /\ ~InQueue(notes, timers[i].id)
             /\ (DismissRemovalFires(i) \/ EvictRemovalFires(i)))
                => (notes' = notes /\ calls' = calls) ]_vars

\* C7: after teardown no timer callback of the component runs, the queue is not
\* changed and onNotificationDismiss is not called.
C7_NoCallbackAfterTeardown ==
    [][ ~mounted => (~TimerCallbackRuns /\ notes' = notes /\ calls' = calls) ]_vars

\* C8: a generation whose fetch completes after teardown is discarded: no record
\* is appended and no timer is scheduled because of it.
C8_LateGenerationDiscarded ==
    [][ (~mounted /\ GenerationResolves)
            => (notes' = notes /\ timers' = timers
                  /\ dismissTimeouts' = dismissTimeouts) ]_vars

\* C9: at most one generation is in flight, and it holds the isGenerating guard;
\* an interval tick or the first delayed call made while the guard is set starts
\* no fetch and changes neither the queue nor the per-note timers, and the
\* interval is armed again for its next tick.
C9_SingleFlight ==
    /\ [](inflight <= 1 /\ (inflight = 1 => isGenerating))
    /\ [][ (isGenerating /\ (IntervalFires \/ FirstFires))
              => /\ inflight' = inflight
                 /\ UNCHANGED <<notes, timers, dismissTimeouts, isGenerating>>
                 /\ (IntervalFires => intervalRef' = autoInterval) ]_vars

\* C9 witness: the first delayed call started a generation that is still in
\* flight, and the interval has ticked since and is armed again.
C9_Witness ==
    /\ events = 0 /\ mounted
    /\ isGenerating /\ inflight = 1 /\ nextId = NumBatchIds + 1
    /\ first = NoTimer /\ intervalRef = autoInterval

\* C10: each notification id has at most one pending scheduled callback,
\* auto-dismiss timers and fade-out removal timers counted together.
C10_OneTimerPerId == \A id \in Ids : Cardinality(TimersOf(id)) <= 1

----------------------------------------------------------------------------
\* The life of one record

\* The record with this id is in the queue s and not fading out.
VisibleIn(s, id) == InQueue(s, id) /\ ~s[FindNote(s, id)].fadingOut

\* The record with this id is in the queue s and fading out.
FadingIn(s, id) == InQueue(s, id) /\ s[FindNote(s, id)].fadingOut

\* The pending timers of one id in the timer sequence ts, as a set of records.
PendingOf(ts, id) == {ts[j] : j \in {j \in DOMAIN ts : ts[j].id = id}}

\* The generator inserts a note that evicts the record with this id.
Evicts(id) ==
    /\ GenerationResolves
    /\ Len(NonFading(notes)) >= maxNotifications
    /\ NonFading(notes)[1].id = id

\* A step that is another trigger for the record with this id: a manual
\* dismiss, an eviction, a wholesale replacement or the teardown.
OtherTrigger(id) ==
    \/ Replacement
    \/ Unmount
    \/ Evicts(id)
    \/ \E k \in DOMAIN notes : notes[k].id = id /\ HandleManualDismiss(k)

\* The pending timers of an id are those of ts, each as it is or one tick later.
SameTimers(ts, id) ==
    \/ PendingOf(timers', id) = PendingOf(ts, id)
    \/ PendingOf(timers', id) = {[t EXCEPT !.rem = @ - 1] : t \in PendingOf(ts, id)}

----------------------------------------------------------------------------
----------------------------------------------------------------------------
\* The timers of ts whose handle the dismissTimeouts map holds.
Tracked(ts) == SelectSeq(ts, LAMBDA t : t.tracked)

\* The pending auto-dismiss timers of one id.
AutoTimersOf(ts, id) == {j \in DOMAIN ts : ts[j].kind = "auto" /\ ts[j].id = id}

\* C13: after the caller supplies a batch the queue is exactly the supplied
\* records in the supplied order, every handle the timer map holds belongs to a
\* timer set by the replacement itself, and with autoDismissTimeout > 0 exactly
\* one auto-dismiss timer is pending for each supplied record (none otherwise).
C13_ReplacementResult ==
    [][ \A b \in Batches : SyncNotifications(b) =>
          /\ notes' = [i \in 1..Len(b) |-> NotificationItem(b[i], FALSE)]
          /\ dismissTimeouts' \subseteq {b[i] : i \in 1..Len(b)}
          /\ Len(Tracked(timers')) = Cardinality(dismissTimeouts')
          /\ \A j \in DOMAIN timers' :
                timers'[j].tracked =>
                    /\ j > Len(timers') - Len(b)
                    /\ timers'[j] = TimerRec("auto", b[j - (Len(timers') - Len(b))],
                                             autoDismissTimeout, TRUE)
          /\ \A i \in 1..Len(b) :
                Cardinality(AutoTimersOf(timers', b[i]))
                    = IF autoDismissTimeout > 0 THEN 1 ELSE 0
      ]_vars

\* C13 witness: a generated record with a pending auto-dismiss timer was
\* replaced by a batch of two records; the only pending timers are the two
\* auto-dismiss timers of the batch.
C13_Witness ==
    /\ mounted /\ events = 1 /\ autoDismissTimeout > 0
    /\ nextId = NumBatchIds + 2
    /\ notes = <<NotificationItem(1, FALSE), NotificationItem(2, FALSE)>>
    /\ timers = <<TimerRec("auto", 1, autoDismissTimeout, TRUE),
                  TimerRec("auto", 2, autoDismissTimeout, TRUE)>>
    /\ dismissTimeouts = {1, 2}
    /\ \A id \in Ids : calls[id] = 0

\* C16: in every reachable state a record whose fadingOut flag is set has no
\* pending auto-dismiss timer and no entry in the timer map.
C16_FadingHasNoAutoTimer ==
    \A k \in DOMAIN notes :
        notes[k].fadingOut =>
            /\ AutoTimersOf(timers, notes[k].id) = {}
            /\ notes[k].id \notin dismissTimeouts

\* C16 witness: a generated record evicted the first record of a batch while
\* that record's auto-dismiss timer was pending; the evicted record is fading
\* and its only pending timer is the removal of the eviction.
C16_Witness ==
    /\ mounted /\ events = 1 /\ autoDismissTimeout > 0
    /\ FadingIn(notes, 1) /\ VisibleIn(notes, 2) /\ VisibleIn(notes, NumBatchIds + 1)
    /\ PendingOf(timers, 1) = {TimerRec("evict", 1, animationDuration, FALSE)}
    /\ dismissTimeouts = {2, NumBatchIds + 1}

----------------------------------------------------------------------------
\* The ids of a queue are pairwise different.
UniqueIds(s) == \A i, j \in DOMAIN s : i # j => s[i].id # s[j].id

\* The uuid was never given to a record: it is not in the queue, has no timer,
\* no map entry and no onNotificationDismiss call.
Unused(id) ==
    /\ ~InQueue(notes, id)
    /\ TimersOf(id) = {}
    /\ id \notin dismissTimeouts
    /\ calls[id] = 0

----------------------------------------------------------------------------
\* C15: while the component is mounted a record leaves the queue only by a
\* wholesale replacement or after its fadingOut flag was set (a fading record
\* is taken out by its removal timer, animationDuration after the flag was
\* set): no step other than a replacement takes a non-fading record out.
C15_RemovedOnlyAfterFading ==
    [][ (mounted /\ ~Replacement) =>
            \A k \in DOMAIN notes :
                ~notes[k].fadingOut => InQueue(notes', notes[k].id) ]_vars

----------------------------------------------------------------------------
\* The fetch of a generation (checked under GenSpec)

\* The parsed body lacks results[0], name.first or name.last.
LacksFields(d) ==
    \/ d.results = None
    \/ d.results # None /\ d.results[1] = <<>>
    \/ d.results # None /\ d.results[1] # <<>> /\
          LET user == d.results[1][1] IN
          \/ user.name = None
          \/ user.name # None /\ (user.name[1].first = None \/ user.name[1].last = None)

\* The fetch failed: the request rejected, the body could not be parsed, or
\* the parsed body lacks a field.
FetchFailed(o) ==
    \/ o.fetch = "rejects"
    \/ o.fetch = "resolves" /\ o.json = None
    \/ o.fetch = "resolves" /\ o.json # None /\ LacksFields(o.json[1])

\* The names of the local list, as a set.
FallbackNameSet == {FallbackNames[n] : n \in DOMAIN FallbackNames}

\* C17: when the fetch of a generation fails (the request rejects, the body
\* cannot be parsed, or the parsed body lacks results[0], name.first or
\* name.last), the name of the generated record's user is one of the five
\* names of the local list.
C17_FallbackOnFailure ==
    [][ (GenSettles /\ gpc = "fetching" /\ FetchFailed(outcome')) =>
            /\ users'[nextId] # None
            /\ users'[nextId][1].name \in FallbackNameSet ]_vars

\* C18: a failing fetch is never surfaced: however the fetch settles,
\* generateNotification gives a record, addGeneratedNote puts it into the
\* queue and resets its guard, and no error leaves addGeneratedNote.
C18_FailureNotSurfaced ==
    /\ [] ~surfaced
    /\ [][ GenSettles =>
              /\ users'[nextId] # None
              /\ VisibleIn(notes', nextId)
              /\ ~isGenerating'
              /\ ~surfaced' ]_vars

\* C18 witness: the request of the last generation rejected, and its record
\* is in the queue under a name of the local list.
C18_Witness ==
    /\ outcome = Rejects
    /\ ~surfaced
    /\ InQueue(notes, nextId - 1)
    /\ users[nextId - 1] # None
    /\ users[nextId - 1][1].name \in FallbackNameSet

\* C19: with a fixedUser no generation makes the fetch, and every generated
\* record carries exactly the fixedUser as its user.
C19_FixedUserNoFetch ==
    /\ [](fixedUser # None =>
            /\ fetches = 0
            /\ gpc # "fetching"
            /\ \A id \in GenIds : users[id] \in {None, fixedUser})
    /\ [][ (fixedUser # None /\ GenSettles) =>
              /\ users'[nextId] = fixedUser
              /\ VisibleIn(notes', nextId) ]_vars

\* C19 witness: with a fixedUser two records were generated, both carry it,
\* and no fetch was made.
C19_Witness ==
    /\ fixedUser # None
    /\ nextId = NumBatchIds + 3
    /\ users[NumBatchIds + 1] = fixedUser
    /\ users[NumBatchIds + 2] = fixedUser
    /\ fetches = 0

----------------------------------------------------------------------------
\* Every provider whose context c reads is above the element.
InsideProviders(c, path) ==
    \A i \in DOMAIN Needs(c) : \E j \in DOMAIN path : path[j] = Needs(c)[i]

----------------------------------------------------------------------------
\* C21: in every reachable state every id that has an entry in the
\* dismissTimeouts map is the id of a record that is in the queue.
C21_MapEntriesInQueue == \A id \in dismissTimeouts : InQueue(notes, id)

----------------------------------------------------------------------------
\* C22: with autoDismissTimeout = 0 no auto-dismiss timer is ever pending and
\* the map stays empty, and a non-fading record of the queue stays in the
\* queue, non-fading, over every step that is not a manual dismiss of it, its
\* eviction or a wholesale replacement.
C22_NoAutoDismissWhenOff ==
    /\ [](autoDismissTimeout = 0 =>
            /\ dismissTimeouts = {}
            /\ \A i \in DOMAIN timers : timers[i].kind # "auto")
    /\ [][ (autoDismissTimeout = 0 /\ mounted) =>
              \A k \in DOMAIN notes :
                  (/\ ~notes[k].fadingOut
                   /\ ~Replacement
                   /\ ~Evicts(notes[k].id)
                   /\ ~HandleManualDismiss(k))
                  => VisibleIn(notes', notes[k].id) ]_vars

----------------------------------------------------------------------------
\* C23: a record that a wholesale replacement has put into the queue stays
\* there until a dismissal of its own is started: a removal timer that runs
\* while the record of its id is not fading out (a timer of a dismissal from
\* before the replacement that re-supplied the id) does not remove the record.
C23_PriorRemovalKeepsNewRecord ==
    [][ \A i \in DOMAIN timers :
            (/\ mounted
             /\ VisibleIn(notes, timers[i].id)
             /\ RemovalFires(i))
            => VisibleIn(notes', timers[i].id) ]_vars

----------------------------------------------------------------------------
\* C24 (checked under GenSpec): whenever the fetch of a generation settles,
\* with a fetched user or with a failure, the isGenerating guard is released
\* and the generation is no longer in flight; the guard is never set while no
\* generation is in flight; and an interval tick that finds the guard
\* released starts a new generation.
C24_GuardReleased ==
    /\ [](inflight = 0 => ~isGenerating)
    /\ [][ /\ GenSettles => (~isGenerating' /\ inflight' = inflight - 1)
           /\ (IntervalFires /\ autoGenerate /\ ~isGenerating)
                 => (isGenerating' /\ inflight' = inflight + 1) ]_vars

\* C24 witness: the fetch of the first generation failed, its record was
\* inserted, and an interval tick after it has started the second generation.
C24_Witness ==
    /\ FetchFailed(outcome)
    /\ nextId = NumBatchIds + 2
    /\ InQueue(notes, NumBatchIds + 1)
    /\ isGenerating /\ inflight = 1
    /\ intervalRef = autoInterval

----------------------------------------------------------------------------
\* C25: while autoGenerate is false no generator interval and no first
\* delayed call is armed or runs, and no generated record is appended to the
\* queue, also when a generation was in flight when autoGenerate was switched
\* off.
C25_NoGenerationWhenOff ==
    /\ [](~autoGenerate => (intervalRef = NoTimer /\ first = NoTimer))
    /\ [][ ~autoGenerate =>
              /\ ~(IntervalFires \/ FirstFires)
              /\ GenerationResolves => notes' = notes ]_vars


\* C26: in an Accordion of type "single" at most one item is open in every
\* state (at the mount, after a controlled update, after a click), and with
\* collapsible = false a click on the open item leaves it open.
C26_SingleHasAtMostOneOpen ==
    /\ [](accType = "single" => Len(accValues) <= 1)
    /\ [][ \A item \in AccordionItems :
              (/\ accType = "single"
               /\ ~accCollapsible
               /\ Includes(accValues, item)
               /\ AccClick(item))
              => Includes(accValues', item) ]_vars

\* A controlled single Accordion given two items shows the first; a click on
\* it with collapsible = false has asked for it to stay open.
C26_Witness ==
    /\ accType = "single"
    /\ ~accCollapsible
    /\ accValue = ArrayProp(<<"a", "b">>)
    /\ accValues = <<"a">>
    /\ accChanged = Some(<<"a">>)

\* C27: in the Tooltip a show timer and a hide timer are never pending
\* together, whatever the order of mouse-enter and mouse-leave; a mouse-leave
\* cancels the pending show timer and a mouse-enter the pending hide timer, so
\* a show timer fires only when the last mouse event was an enter delayDuration
\* ago, and a hide timer only when it was a leave hideDelay ago.
C27_TimersExclusive ==
    /\ [](~(tipShow # NoTimer /\ tipHide # NoTimer))
    /\ [][ /\ TooltipMouseLeave => tipShow' = NoTimer
           /\ TooltipMouseEnter => tipHide' = NoTimer
           /\ TooltipShowFires => (tipLast = "enter" /\ tipSince >= delayDuration)
           /\ TooltipHideFires => (tipLast = "leave" /\ tipSince >= hideDelay) ]_vars

\* A mouse-leave has cancelled a show timer before it fired, the hide timer
\* has run out since, and the tooltip never opened.
C27_Witness ==
    /\ tipLast = "leave"
    /\ tipCleared = {"show"}
    /\ tipHideRef /\ tipHide = NoTimer
    /\ tipChanged = Some(FALSE)
    /\ ~TipOpen

\* The menu of a hover-mode DropdownMenu is open because the trigger was
\* hovered, and the pointer is over neither the trigger nor the content.
MenuLeftOpen ==
    /\ menuMounted /\ menuHover
    /\ MenuOpen /\ menuOpenedBy = "hover"
    /\ menuPointer = "outside"

\* C28: in hover mode, once the menu was opened by hovering the trigger and
\* the pointer has left both the trigger and the content, the menu eventually
\* closes unless the pointer comes back.
C28_HoverMenuCloses ==
    MenuLeftOpen ~> (~MenuOpen \/ menuPointer # "outside" \/ ~menuMounted)

\* What a request does to a component that takes it: in controlled mode the
\* state is left alone and the value shown stays the prop, in uncontrolled
\* mode the state becomes the requested value, and a supplied callback is
\* called once with the requested value.
RequestTaken(request) ==
    /\ openProp # None => (openState' = openState /\ OpenShown' = openProp[1])
    /\ openProp = None => openState' = Resolve(request, openState)
    /\ openHasCallback =>
          /\ openCalls' = openCalls + 1
          /\ openLast' = Some(Resolve(request, OpenShown))

\* C29: for Popover, Drawer, Collapsible and SidebarProvider a request to
\* open or close leaves the internal state alone in controlled mode (the
\* value shown is the prop) and sets it to the requested value in
\* uncontrolled mode, and the change callback is called once per request
\* with the requested value.
C29_EveryRequestTaken ==
    [][ \A request \in Requests(openKind) :
            OpenRequest(request) => RequestTaken(request) ]_vars

\* C29, amended: the same for every request made of a component that is not
\* disabled; a disabled Collapsible ignores the request (no state change, no
\* callback).
C29_RequestTakenUnlessDisabled ==
    [][ \A request \in Requests(openKind) :
            OpenRequest(request) =>
                IF openDisabled
                THEN UNCHANGED <<openState, openCalls, openLast>>
                ELSE RequestTaken(request) ]_vars

\* A controlled, closed Popover has been asked to open: the callback got
\* TRUE once, the state and the prop are as they were.
C29_Witness ==
    /\ openKind = "Popover"
    /\ openProp = Some(FALSE) /\ ~openState
    /\ openHasCallback
    /\ openRequests = 1 /\ openCalls = 1
    /\ openLast = Some(TRUE)
====
